---- MODULE Spec2Model ----
(***************************************************************************)
(* TabletopObjectRecognizer::objectDetection                               *)
(* (include/tabletop/object/tabletop_object_detector.h).                   *)
(*                                                                         *)
(* One behaviour of the model is one call of objectDetection: the main     *)
(* thread dispatches one std::async fit task per cluster, joins them in    *)
(* cluster order, runs the optional merge stage and assembles the results. *)
(* The fit tasks run concurrently with the main thread.                    *)
(*                                                                         *)
(* Units.  Scores are in tenths (score 9 is 0.9), confidences and the      *)
(* confidence cutoff in hundredths (99 is 0.99), pose positions and the    *)
(* merge threshold in hundredths of the position unit (2 is 0.02).  On     *)
(* this grid the arithmetic of getConfidence and fitDistance is exact; the  *)
(* rounding of double and float values is not part of the model.           *)
(***************************************************************************)
EXTENDS Integers, Sequences, FiniteSets, TLC

\* Largest number of input clusters of one call.
MaxClusters == 3

\* fit_merge_threshold_ = 0.02, set by the constructor.
fit_merge_threshold_ == 2

\* num_models, the local of objectDetection.
num_models == 1

VARIABLES
  clusters,               \* the in/out argument: cluster index -> sequence of points
  confidence_cutoff,      \* argument, hundredths
  perform_fit_merge,      \* argument
  results,                \* the out argument
  results_before,         \* the entries results held when the call was made
  cluster_model_indices,  \* local: representative index of every cluster
  raw_fit_results,        \* local: candidate list of every cluster
  future_results,         \* local: the future of every fit task
  search,                 \* local: the spatial index of every cluster
  i,                      \* the loop index of the running loop of the main thread
  pc,                     \* the position of the main thread
  detector_,              \* what the Fitter answers for every input cluster
  fit_calls,              \* the Fitter invocations made so far, per phase
  index_builds,           \* number of spatial index builds so far
  refits,                 \* the refits of the merge stage, in order
  evaluation              \* getConfidence applied to two scores, apart from any call

vars == <<clusters, confidence_cutoff, perform_fit_merge, results, results_before,
          cluster_model_indices, raw_fit_results, future_results, search,
          i, pc, detector_, fit_calls, index_builds, refits, evaluation>>

----------------------------------------------------------------------------
(* Values *)

\* The points of input cluster k: two points for an even k, one for an odd k.
\* A point is named by its cluster and its place in it.
OrigPoints(k) ==
  IF k % 2 = 0 THEN << <<k, 0>>, <<k, 1>> >> ELSE << <<k, 0>> >>

\* ModelFitInfo: the model, the raw score and the pose position of one fit.
ModelFitInfo(id, s, px, py, pz) ==
  [model_id |-> id, score |-> s, pose |-> [x |-> px, y |-> py, z |-> pz]]

\* The fits the Fitter may rank first.
Candidates ==
  { ModelFitInfo(5, 9, 0, 0, 0),
    ModelFitInfo(5, 9, 1, 0, 0),
    ModelFitInfo(7, 3, 3, 0, 0),
    ModelFitInfo(7, 1, 1, 1, 9) }

\* The length of the list fitBestModels returns is at most its second argument.
MaxCandidates == IF 1 > num_models THEN 1 ELSE num_models

\* A candidate list, best first.
FitLists == {<<>>} \cup { <<c>> : c \in Candidates }

\* What one Fitter invocation does: it returns a candidate list, or it raises.
FitOutcomes ==
  { [ok |-> TRUE, fits |-> l] : l \in FitLists } \cup { [ok |-> FALSE, fits |-> <<>>] }

\* The confidence cutoffs a caller passes.
Cutoffs == {0, 50}

\* A spatial index that was default-constructed, and one that was destroyed.
Unbuilt == [built |-> FALSE, alive |-> TRUE, over |-> <<>>]
Destroyed == [built |-> FALSE, alive |-> FALSE, over |-> <<>>]

\* A default-constructed future and the state of a future over time.
NoFuture == [state |-> "invalid", cl |-> -1, idx |-> -1, read |-> <<>>,
             ret |-> [ok |-> TRUE, fits |-> <<>>]]

size(v) == Cardinality(DOMAIN v)

\* objectDetection appends to results and never clears it: an entry that an
\* earlier call left in the vector the caller passes.
Leftover ==
  [pose_ |-> [x |-> 3, y |-> 0, z |-> 0], confidence_ |-> 51, object_id_ |-> 7,
   cloud_ |-> << <<1, 0>> >>, cloud_index_ |-> 1]

----------------------------------------------------------------------------
(* Pure functions *)

\* The raw score taken as the confidence.
getConfidenceRaw(score) == 10 * score

\* getConfidence: 1 - (1 - score)^2, score in tenths, result in hundredths.
getConfidence(score) == 100 - (10 - score) * (10 - score)

\* fitDistance: the distance along the plane between two fits.  The source
\* returns sqrt(d); the model returns d, the square, and compares it with the
\* square of the threshold.
fitDistance(m1, m2) ==
  LET dx == m1.pose.x - m2.pose.x
      dy == m1.pose.y - m2.pose.y
  IN  dx * dx + dy * dy

\* fitDistance(...) <= fit_merge_threshold_
CloserOrAtThreshold(m1, m2) ==
  fitDistance(m1, m2) <= fit_merge_threshold_ * fit_merge_threshold_

\* fitDistance(...) < fit_merge_threshold_
CloserThanThreshold(m1, m2) ==
  fitDistance(m1, m2) < fit_merge_threshold_ * fit_merge_threshold_

\* The Fitter is a function of the points and the spatial index it is given:
\* on an input cluster with the index built over it, it answers detector_.
FitterMayReturn(pts, idx, out) ==
  \A k \in DOMAIN detector_ :
    (pts = OrigPoints(k) /\ idx.built /\ idx.over = OrigPoints(k)) => out = detector_[k]

(* getConfidence in the double arithmetic of the code, on the scores 0,
   1 - 2^-1, 1 - 2^-2, ..., 1 - 2^-53 and 1.  The number d stands for the double
   1 - 2^-d when d <= DBL_MANT_DIG and for 1.0 when d = DBL_MANT_DIG + 1, so
   that the order of the doubles is the order of the numbers d. *)

\* The significand of an IEEE 754 double has 53 bits.
DBL_MANT_DIG == 53

\* The double 1.0.
DoubleOne == DBL_MANT_DIG + 1

\* The doubles 0, 1 - 2^-1, ..., 1 - 2^-53, 1.
Doubles == 0..DoubleOne

\* 1.0 - v for such a double v: the power of two 2^-e, given by e; 0 for v = 1.
\* The subtraction is exact.
OneMinus(d) == IF d = DoubleOne THEN [zero |-> TRUE, e |-> 0] ELSE [zero |-> FALSE, e |-> d]

\* t * t for a power of two t (or 0): exact.
Square(t) == [zero |-> t.zero, e |-> 2 * t.e]

\* 1.0 - t for a power of two t = 2^-e (or 0), rounded to the nearest double,
\* ties to even: 1 - 2^-e is a double up to e = 53; for e = 54 it lies halfway
\* between 1 - 2^-53 and 1.0 and goes to 1.0, whose significand is even; beyond
\* that 1.0 is the nearest.
OneMinusRounded(t) ==
  IF t.zero THEN DoubleOne
  ELSE IF t.e <= DBL_MANT_DIG THEN t.e
  ELSE DoubleOne

\* A confidence that falls as the score rises.
getConfidenceDoubleFalling(d) == DoubleOne - d

\* getConfidence on these doubles: 1.0 - (1.0 - score) * (1.0 - score).
getConfidenceDouble(d) == OneMinusRounded(Square(OneMinus(d)))

\* No evaluation of getConfidence is looked at.
NoEvaluation == [s1 |-> 0, s2 |-> 0, cutoff |-> 0, done |-> FALSE, c1 |-> 0, c2 |-> 0]

----------------------------------------------------------------------------
Init ==
  /\ \E n \in 0..MaxClusters :
       /\ clusters = [k \in 0..(n - 1) |-> OrigPoints(k)]
       /\ cluster_model_indices = [k \in 0..(n - 1) |-> -1]
       /\ raw_fit_results = [k \in 0..(n - 1) |-> <<>>]
       /\ future_results = [k \in 0..(n - 1) |-> NoFuture]
       /\ search = [k \in 0..(n - 1) |-> Unbuilt]
       /\ detector_ \in [0..(n - 1) -> FitOutcomes]
  /\ confidence_cutoff \in Cutoffs
  /\ perform_fit_merge \in BOOLEAN
  /\ results \in {<<>>, <<Leftover>>}
  /\ results_before = results
  /\ i = 0
  /\ pc = "dispatch"
  /\ fit_calls = [dispatch |-> 0, merge |-> 0]
  /\ index_builds = 0
  /\ refits = <<>>
  /\ evaluation = NoEvaluation

----------------------------------------------------------------------------
(* Dispatch: one spatial index and one asynchronous fit task per cluster *)

\* Every task launched on the first cluster.
TaskArgsFirst(k) == [cl |-> 0, idx |-> k]

\* The arguments the task of cluster k is launched with:
\* std::ref(clusters[k]) and std::ref(search[k]).
TaskArgs(k) == [cl |-> k, idx |-> k]

\* The dispatch loop as a do-while loop: the body runs before the bound is tested.
DispatchDoWhile ==
  /\ pc = "dispatch"
  /\ i < size(clusters) \/ i = 0
  /\ cluster_model_indices' = [cluster_model_indices EXCEPT ![i] = i]
  /\ search' = [search EXCEPT ![i] =
                  [built |-> TRUE, alive |-> TRUE,
                   over |-> IF i \in DOMAIN clusters THEN clusters[i] ELSE <<>>]]
  /\ index_builds' = index_builds + 1
  /\ future_results' = [future_results EXCEPT ![i] =
         [state |-> "running", cl |-> i, idx |-> i, read |-> <<>>, ret |-> NoFuture.ret]]
  /\ fit_calls' = [fit_calls EXCEPT !.dispatch = @ + 1]
  /\ i' = i + 1
  /\ UNCHANGED <<evaluation, clusters, confidence_cutoff, perform_fit_merge, results, results_before,
                 raw_fit_results, pc, detector_, refits>>

\* One iteration of the dispatch loop.
Dispatch ==
  /\ pc = "dispatch"
  /\ i < size(clusters)
  /\ cluster_model_indices' = [cluster_model_indices EXCEPT ![i] = i]
  /\ search' = [search EXCEPT ![i] = [built |-> TRUE, alive |-> TRUE, over |-> clusters[i]]]
  /\ index_builds' = index_builds + 1
  /\ future_results' = [future_results EXCEPT ![i] =
         [state |-> "running", cl |-> TaskArgs(i).cl, idx |-> TaskArgs(i).idx,
          read |-> <<>>, ret |-> NoFuture.ret]]
  /\ fit_calls' = [fit_calls EXCEPT !.dispatch = @ + 1]
  /\ i' = i + 1
  /\ UNCHANGED <<evaluation, clusters, confidence_cutoff, perform_fit_merge, results, results_before,
                 raw_fit_results, pc, detector_, refits>>

\* The dispatch loop ends; the join loop starts.
DispatchDone ==
  /\ pc = "dispatch"
  /\ ~(i < size(clusters))
  /\ pc' = "join"
  /\ i' = 0
  /\ UNCHANGED <<evaluation, clusters, confidence_cutoff, perform_fit_merge, results, results_before,
                 cluster_model_indices, raw_fit_results, future_results, search,
                 detector_, fit_calls, index_builds, refits>>

\* The fit task of future k runs fitBestModels on the cluster and the index it
\* was given by reference and completes.  A task that is still running when the
\* indices have been destroyed uses a destroyed object: it completes with a
\* value that is never retrieved, or it brings the process down.
FitTask(k) ==
  /\ pc # "crashed"
  /\ future_results[k].state = "running"
  /\ LET f == future_results[k]
         pts == clusters[f.cl]
         idx == search[f.idx]
     IN  \/ /\ idx.alive
            /\ \E out \in FitOutcomes :
                 /\ FitterMayReturn(pts, idx, out)
                 /\ future_results' = [future_results EXCEPT ![k] =
                        [f EXCEPT !.state = "ready", !.ret = out,
                                  !.read = <<pts, idx.over>>]]
            /\ pc' = pc
         \/ /\ ~idx.alive
            /\ future_results' = [future_results EXCEPT ![k] =
                   [f EXCEPT !.state = "ready", !.read = <<pts, idx.over>>]]
            /\ pc' = pc
         \/ /\ ~idx.alive
            /\ pc' = "crashed"
            /\ future_results' = future_results
  /\ UNCHANGED <<evaluation, clusters, confidence_cutoff, perform_fit_merge, results, results_before,
                 cluster_model_indices, raw_fit_results, search, i,
                 detector_, fit_calls, index_builds, refits>>

----------------------------------------------------------------------------
(* Join: future_results[i].get() in cluster order *)

\* A read of the future that does not wait for the task.
JoinNoWait(f) == TRUE

\* get() blocks until the task of the future has completed.
JoinReady(f) == f.state = "ready"

\* The locals are destroyed in reverse order of declaration when an exception
\* leaves the function: search first, then future_results.
DestroySearch == [k \in DOMAIN search |-> Destroyed]

\* One iteration of the join loop: get() returns the task's list, or rethrows
\* what the task raised, which leaves objectDetection.
Join ==
  /\ pc = "join"
  /\ i < size(clusters)
  /\ JoinReady(future_results[i])
  /\ future_results' = [future_results EXCEPT ![i].state = "retrieved"]
  /\ IF future_results[i].ret.ok
       THEN /\ raw_fit_results' = [raw_fit_results EXCEPT ![i] = future_results[i].ret.fits]
            /\ i' = i + 1
            /\ UNCHANGED <<pc, search>>
       ELSE /\ pc' = "unwinding"
            /\ search' = DestroySearch
            /\ UNCHANGED <<raw_fit_results, i>>
  /\ UNCHANGED <<evaluation, clusters, confidence_cutoff, perform_fit_merge, results, results_before,
                 cluster_model_indices, detector_, fit_calls, index_builds, refits>>

\* The join loop ends; the merge stage starts.
JoinDone ==
  /\ pc = "join"
  /\ ~(i < size(clusters))
  /\ pc' = "merge"
  /\ i' = 0
  /\ UNCHANGED <<evaluation, clusters, confidence_cutoff, perform_fit_merge, results, results_before,
                 cluster_model_indices, raw_fit_results, future_results, search,
                 detector_, fit_calls, index_builds, refits>>

\* The destructor of a future made by std::async blocks until its task has
\* completed; then the exception reaches the caller.
Unwind ==
  /\ pc = "unwinding"
  /\ \A k \in DOMAIN future_results : future_results[k].state # "running"
  /\ pc' = "thrown"
  /\ UNCHANGED <<evaluation, clusters, confidence_cutoff, perform_fit_merge, results, results_before,
                 cluster_model_indices, raw_fit_results, future_results, search,
                 i, detector_, fit_calls, index_builds, refits>>

----------------------------------------------------------------------------
(* Merge stage: merge models that were fit very close to each other *)

\* The merge stage run whatever the flag says.
MergeAlways == TRUE

\* if (perform_fit_merge)
MergeEnabled == perform_fit_merge

\* The condition under which the outer loop passes over cluster k.
OuterSkips(k) == cluster_model_indices[k] # k \/ raw_fit_results[k] = <<>>

\* The inner loop breaking at a cluster without a fit as well.
InnerBreaksAtEmpty(k, j) ==
  IF raw_fit_results[j] = <<>> THEN TRUE
  ELSE CloserThanThreshold(raw_fit_results[k][1], raw_fit_results[j][1])

\* The condition under which the inner loop breaks at j for the outer cluster k.
InnerBreaks(k, j) ==
  /\ raw_fit_results[j] # <<>>
  /\ CloserThanThreshold(raw_fit_results[k][1], raw_fit_results[j][1])

\* The inner for loop from j on: the value of j when the loop is left, which is
\* size(clusters) when it did not break.
RECURSIVE InnerScan(_, _)
InnerScan(k, j) ==
  IF ~(j < size(clusters)) THEN j
  ELSE IF cluster_model_indices[j] # j THEN InnerScan(k, j + 1)
  ELSE IF InnerBreaks(k, j) THEN j
  ELSE InnerScan(k, j + 1)

\* The inner loop taken up behind the cluster that was merged last into k.
InnerStartBehindMerged(k) ==
  IF refits # <<>> /\ refits[Len(refits)].cl = k
    THEN refits[Len(refits)].from + 1
    ELSE k + 1

\* for (j = i + 1; ...)
InnerStart(k) == k + 1

\* The points of the other cluster put in front of the own ones.
insertFront(into, from) == from \o into

\* The points of the other cluster put in place of the own ones.
assign(into, from) == from

\* clusters[k].insert(clusters[k].end(), clusters[j].begin(), clusters[j].end())
insert(into, from) == into \o from

\* The line that redirects cluster j left out.
RedirectOmitted(indices, j, k) == indices

\* Cluster k redirected to cluster j.
RedirectReversed(indices, j, k) == [indices EXCEPT ![k] = j]

\* cluster_model_indices[j] = k
Redirect(indices, j, k) == [indices EXCEPT ![j] = k]

\* The fits of the merged cluster kept.
keep(fits) == fits

\* raw_fit_results.at(j).clear()
clear(fits) == <<>>

\* The spatial index of cluster k built again over its merged points.
RefitIndexRebuilt(k, merged) == [built |-> TRUE, alive |-> TRUE, over |-> merged]

\* The spatial index the refit of cluster k is given: search[k], as it is.
RefitIndex(k, merged) == search[k]

\* The merge stage is switched off: straight to the assembly.
MergeOff ==
  /\ pc = "merge"
  /\ ~MergeEnabled
  /\ pc' = "assemble"
  /\ i' = 0
  /\ UNCHANGED <<evaluation, clusters, confidence_cutoff, perform_fit_merge, results, results_before,
                 cluster_model_indices, raw_fit_results, future_results, search,
                 detector_, fit_calls, index_builds, refits>>

\* An outer iteration that passes over cluster i: it was merged or has no fit.
MergeSkip ==
  /\ pc = "merge"
  /\ MergeEnabled
  /\ i < size(clusters)
  /\ OuterSkips(i)
  /\ i' = i + 1
  /\ UNCHANGED <<evaluation, clusters, confidence_cutoff, perform_fit_merge, results, results_before,
                 cluster_model_indices, raw_fit_results, future_results, search,
                 pc, detector_, fit_calls, index_builds, refits>>

\* An outer iteration whose inner loop breaks at j: cluster j is merged into
\* cluster i and cluster i is refit with its own spatial index; i stays.  A
\* refit that raises leaves objectDetection after the three updates.
MergeAbsorb ==
  /\ pc = "merge"
  /\ MergeEnabled
  /\ i < size(clusters)
  /\ ~OuterSkips(i)
  /\ LET j == InnerScan(i, InnerStart(i))
         merged == insert(clusters[i], clusters[j])
     IN  /\ j < size(clusters)
         /\ clusters' = [clusters EXCEPT ![i] = merged]
         /\ cluster_model_indices' = Redirect(cluster_model_indices, j, i)
         /\ \E out \in FitOutcomes :
              /\ FitterMayReturn(merged, RefitIndex(i, merged), out)
              /\ refits' = Append(refits, [cl |-> i, from |-> j, pts |-> merged,
                                           idx |-> RefitIndex(i, merged), ret |-> out])
              /\ IF out.ok
                   THEN /\ raw_fit_results' =
                             [raw_fit_results EXCEPT ![j] = clear(@), ![i] = out.fits]
                        /\ UNCHANGED <<pc, search>>
                   ELSE /\ raw_fit_results' = [raw_fit_results EXCEPT ![j] = clear(@)]
                        /\ pc' = "unwinding"
                        /\ search' = DestroySearch
  /\ fit_calls' = [fit_calls EXCEPT !.merge = @ + 1]
  /\ UNCHANGED <<evaluation, confidence_cutoff, perform_fit_merge, results, results_before, future_results,
                 i, detector_, index_builds>>

\* An outer iteration whose inner loop finds no cluster to merge and that
\* calls the Fitter on cluster i all the same.
MergeAdvanceRefits ==
  /\ pc = "merge"
  /\ MergeEnabled
  /\ i < size(clusters)
  /\ ~OuterSkips(i)
  /\ ~(InnerScan(i, InnerStart(i)) < size(clusters))
  /\ i' = i + 1
  /\ fit_calls' = [fit_calls EXCEPT !.merge = @ + 1]
  /\ UNCHANGED <<evaluation, clusters, confidence_cutoff, perform_fit_merge, results, results_before,
                 cluster_model_indices, raw_fit_results, future_results, search,
                 pc, detector_, index_builds, refits>>

\* An outer iteration whose inner loop finds no cluster to merge and that
\* leaves i where it is.
MergeAdvanceStays ==
  /\ pc = "merge"
  /\ MergeEnabled
  /\ i < size(clusters)
  /\ ~OuterSkips(i)
  /\ ~(InnerScan(i, InnerStart(i)) < size(clusters))
  /\ i' = i
  /\ UNCHANGED <<evaluation, clusters, confidence_cutoff, perform_fit_merge, results, results_before,
                 cluster_model_indices, raw_fit_results, future_results, search,
                 pc, detector_, fit_calls, index_builds, refits>>

\* An outer iteration whose inner loop finds no cluster to merge: i advances.
MergeAdvance ==
  /\ pc = "merge"
  /\ MergeEnabled
  /\ i < size(clusters)
  /\ ~OuterSkips(i)
  /\ ~(InnerScan(i, InnerStart(i)) < size(clusters))
  /\ i' = i + 1
  /\ UNCHANGED <<evaluation, clusters, confidence_cutoff, perform_fit_merge, results, results_before,
                 cluster_model_indices, raw_fit_results, future_results, search,
                 pc, detector_, fit_calls, index_builds, refits>>

\* The outer loop ends.
MergeDone ==
  /\ pc = "merge"
  /\ MergeEnabled
  /\ ~(i < size(clusters))
  /\ pc' = "assemble"
  /\ i' = 0
  /\ UNCHANGED <<evaluation, clusters, confidence_cutoff, perform_fit_merge, results, results_before,
                 cluster_model_indices, raw_fit_results, future_results, search,
                 detector_, fit_calls, index_builds, refits>>

----------------------------------------------------------------------------
(* Assembly of the results *)

\* The result put in front of the others.
push_front(v, e) == <<e>> \o v

\* results.push_back(result)
push_back(v, e) == Append(v, e)

\* The TabletopResult built for cluster k.
TabletopResult(k) ==
  [pose_ |-> raw_fit_results[k][1].pose,
   confidence_ |-> getConfidence(raw_fit_results[k][1].score),
   object_id_ |-> raw_fit_results[k][1].model_id,
   cloud_ |-> clusters[k],
   cloud_index_ |-> k]

\* The two continue conditions of the assembly loop.
AssembleSkips(k) ==
  IF cluster_model_indices[k] # k \/ raw_fit_results[k] = <<>>
    THEN TRUE
    ELSE getConfidence(raw_fit_results[k][1].score) < confidence_cutoff

\* An iteration of the assembly loop that emits nothing.
AssembleSkip ==
  /\ pc = "assemble"
  /\ i < size(cluster_model_indices)
  /\ AssembleSkips(i)
  /\ i' = i + 1
  /\ UNCHANGED <<evaluation, clusters, confidence_cutoff, perform_fit_merge, results, results_before,
                 cluster_model_indices, raw_fit_results, future_results, search,
                 pc, detector_, fit_calls, index_builds, refits>>

\* An iteration of the assembly loop that emits the result of cluster i.
AssembleEmit ==
  /\ pc = "assemble"
  /\ i < size(cluster_model_indices)
  /\ ~AssembleSkips(i)
  /\ results' = push_back(results, TabletopResult(i))
  /\ i' = i + 1
  /\ UNCHANGED <<evaluation, clusters, confidence_cutoff, perform_fit_merge, results_before,
                 cluster_model_indices, raw_fit_results, future_results, search,
                 pc, detector_, fit_calls, index_builds, refits>>

\* The assembly loop ends and objectDetection returns.
AssembleDone ==
  /\ pc = "assemble"
  /\ ~(i < size(cluster_model_indices))
  /\ pc' = "done"
  /\ UNCHANGED <<evaluation, clusters, confidence_cutoff, perform_fit_merge, results, results_before,
                 cluster_model_indices, raw_fit_results, future_results, search,
                 i, detector_, fit_calls, index_builds, refits>>

----------------------------------------------------------------------------
Next ==
  \/ Dispatch
  \/ DispatchDone
  \/ \E k \in DOMAIN future_results : FitTask(k)
  \/ Join
  \/ JoinDone
  \/ Unwind
  \/ MergeOff
  \/ MergeSkip
  \/ MergeAbsorb
  \/ MergeAdvance
  \/ MergeDone
  \/ AssembleSkip
  \/ AssembleEmit
  \/ AssembleDone

Spec == Init /\ [][Next]_vars

\* The threads of the program keep running: a step that can be taken is taken.
SpecLive == Spec /\ WF_vars(Next)

----------------------------------------------------------------------------
(* getConfidence on its own: two scores and a cutoff, no clusters *)

InitConfidence ==
  /\ clusters = <<>>
  /\ cluster_model_indices = <<>>
  /\ raw_fit_results = <<>>
  /\ future_results = <<>>
  /\ search = <<>>
  /\ detector_ = <<>>
  /\ confidence_cutoff = 0
  /\ perform_fit_merge = FALSE
  /\ results = <<>>
  /\ results_before = <<>>
  /\ i = 0
  /\ pc = "confidence"
  /\ fit_calls = [dispatch |-> 0, merge |-> 0]
  /\ index_builds = 0
  /\ refits = <<>>
  /\ \E a, b, c \in Doubles :
       evaluation = [s1 |-> a, s2 |-> b, cutoff |-> c, done |-> FALSE, c1 |-> 0, c2 |-> 0]

\* getConfidence is applied to the two scores.
EvaluateConfidence ==
  /\ pc = "confidence"
  /\ ~evaluation.done
  /\ evaluation' = [evaluation EXCEPT !.done = TRUE,
                                       !.c1 = getConfidenceDouble(evaluation.s1),
                                       !.c2 = getConfidenceDouble(evaluation.s2)]
  /\ UNCHANGED <<clusters, confidence_cutoff, perform_fit_merge, results, results_before,
                 cluster_model_indices, raw_fit_results, future_results, search,
                 i, pc, detector_, fit_calls, index_builds, refits>>

NextConfidence == EvaluateConfidence

SpecConfidence == InitConfidence /\ [][NextConfidence]_vars

----------------------------------------------------------------------------
(* Derived notions used by the properties *)

\* The entries this call has appended to results.
Produced == SubSeq(results, Len(results_before) + 1, Len(results))

\* The cluster indices of the entries this call has appended.
ProducedIndices == { Produced[r].cloud_index_ : r \in 1..Len(Produced) }

\* The call was left by an exception or brought down.
Aborted == pc \in {"unwinding", "thrown", "crashed"}

\* Some fit task has been launched and has not completed.
SomeTaskRunning == \E k \in DOMAIN future_results : future_results[k].state = "running"

\* The dispatch-time best fit of cluster k exists.
HasDispatchFit(k) == detector_[k].ok /\ detector_[k].fits # <<>>

----------------------------------------------------------------------------
(* C1 *)

\* C1: with perform_fit_merge set, two input clusters whose dispatch-time best
\* fits exist and are closer than the merge threshold along the plane are never
\* both entries of the output of the call.
C1_CloseFitsNeverSeparate ==
  (pc = "done" /\ perform_fit_merge) =>
    \A a, b \in DOMAIN clusters :
      (a < b /\ HasDispatchFit(a) /\ HasDispatchFit(b)
             /\ CloserThanThreshold(detector_[a].fits[1], detector_[b].fits[1]))
        => ~(a \in ProducedIndices /\ b \in ProducedIndices)

----------------------------------------------------------------------------
(* C2 *)

\* C2: the entries one call appends are in strictly ascending order of
\* cloud_index_, whatever their confidences are.
C2_StrictlyAscendingIndex ==
  \A r \in 1..(Len(Produced) - 1) :
    Produced[r].cloud_index_ < Produced[r + 1].cloud_index_

\* A finished call with two entries of which the first is the less confident.
C2_Witness ==
  /\ pc = "done"
  /\ Len(Produced) >= 2
  /\ Produced[1].confidence_ < Produced[2].confidence_

----------------------------------------------------------------------------
(* C3 *)

\* C3: with perform_fit_merge unset the clusters are never changed by the call,
\* and from the end of the join to the return every fit result is the one the
\* join stored, every representative index is the cluster's own, and the only
\* Fitter calls made are the one per cluster of the dispatch.
C3_MergeOffIsPassThrough ==
  ~perform_fit_merge =>
    /\ \A k \in DOMAIN clusters : clusters[k] = OrigPoints(k)
    /\ pc \in {"merge", "assemble", "done"} =>
         /\ \A k \in DOMAIN clusters :
              /\ raw_fit_results[k] = future_results[k].ret.fits
              /\ cluster_model_indices[k] = k
         /\ fit_calls = [dispatch |-> size(clusters), merge |-> 0]
         /\ refits = <<>>

\* A finished call without merging whose clusters 0 and 1 have fits closer
\* than the threshold: the merge stage would have merged them.
C3_Witness ==
  /\ ~perform_fit_merge
  /\ pc = "done"
  /\ size(clusters) >= 2
  /\ raw_fit_results[0] # <<>>
  /\ raw_fit_results[1] # <<>>
  /\ CloserThanThreshold(raw_fit_results[0][1], raw_fit_results[1][1])
  /\ {0, 1} \subseteq ProducedIndices

----------------------------------------------------------------------------
(* C4 *)

\* The entry the assembly is to emit for cluster k, written out.
C4_ExpectedEntry(k) ==
  LET top == raw_fit_results[k][1]
  IN  [pose_ |-> top.pose,
       confidence_ |-> 100 - (10 - top.score) * (10 - top.score),
       object_id_ |-> top.model_id,
       cloud_ |-> clusters[k],
       cloud_index_ |-> k]

\* Cluster k is to be emitted: it is its own representative, has a fit, and the
\* confidence of its top candidate is not below the cutoff.
C4_ToEmit(k) ==
  /\ cluster_model_indices[k] = k
  /\ raw_fit_results[k] # <<>>
  /\ LET s == raw_fit_results[k][1].score
     IN  ~(100 - (10 - s) * (10 - s) < confidence_cutoff)

\* C4: once the assembly loop has passed cluster k, the output has an entry for
\* k exactly if k is its own representative, has a fit and the confidence
\* 1-(1-score)^2 of its top candidate is not below the cutoff; the entry carries
\* that candidate's model and pose, that confidence, the current points of k and
\* k as index.  A top score of 0.3 under a cutoff of 0.5 is emitted with 0.51.
C4_EmittedIffAccepted ==
  pc \in {"assemble", "done"} =>
    \A k \in DOMAIN clusters :
      (pc = "done" \/ k < i) =>
        /\ (k \in ProducedIndices) <=> C4_ToEmit(k)
        /\ \A r \in 1..Len(Produced) :
             Produced[r].cloud_index_ = k => Produced[r] = C4_ExpectedEntry(k)
        /\ (cluster_model_indices[k] = k /\ raw_fit_results[k] # <<>>
              /\ raw_fit_results[k][1].score = 3 /\ confidence_cutoff = 50)
             => (\E r \in 1..Len(Produced) :
                   Produced[r].cloud_index_ = k /\ Produced[r].confidence_ = 51)

\* A finished call with cutoff 0.5 that emitted a cluster of top score 0.3 and
\* dropped a cluster that has a fit.
C4_Witness ==
  /\ pc = "done"
  /\ confidence_cutoff = 50
  /\ \E r \in 1..Len(Produced) :
       /\ Produced[r].confidence_ = 51
       /\ raw_fit_results[Produced[r].cloud_index_][1].score = 3
  /\ \E k \in DOMAIN clusters :
       /\ cluster_model_indices[k] = k
       /\ raw_fit_results[k] # <<>>
       /\ k \notin ProducedIndices

----------------------------------------------------------------------------
(* C5 *)

\* C5: a fit task that raised does not abort the call: once its future has been
\* retrieved the call goes on, with an empty candidate list for that cluster.
C5_TaskFailureDoesNotAbort ==
  \A k \in DOMAIN future_results :
    (future_results[k].state = "retrieved" /\ ~future_results[k].ret.ok)
      => (~Aborted /\ raw_fit_results[k] = <<>>)

----------------------------------------------------------------------------
(* C6 *)

\* C6: while any launched fit task is still running the main thread is before
\* the merge stage: no cluster has been changed, no representative index has
\* been redirected, no refit has been made, nothing has been appended to the
\* results and the call has not returned.  Every task that completed has read
\* the unchanged points of its cluster.
C6_JoinBarrier ==
  /\ SomeTaskRunning =>
       /\ pc \notin {"merge", "assemble", "done"}
       /\ \A k \in DOMAIN clusters :
            /\ clusters[k] = OrigPoints(k)
            /\ cluster_model_indices[k] \in {-1, k}
       /\ refits = <<>>
       /\ fit_calls.merge = 0
       /\ Produced = <<>>
  /\ \A k \in DOMAIN clusters :
       raw_fit_results[k] # <<>> => future_results[k].state = "retrieved"
  /\ \A k \in DOMAIN future_results :
       future_results[k].state \in {"ready", "retrieved"}
         => /\ Len(future_results[k].read) = 2
            /\ future_results[k].read[1] = OrigPoints(future_results[k].cl)

\* The main thread waits in the join loop for the task of cluster 0 while the
\* task of a later cluster has already completed.
C6_Witness ==
  /\ pc = "join"
  /\ i = 0
  /\ size(clusters) >= 2
  /\ future_results[0].state = "running"
  /\ future_results[1].state = "ready"

----------------------------------------------------------------------------
(* C7 *)

\* The output of a call without merging, computed from the answers of the
\* Fitter alone: clusters 0..k-1 in order.
RECURSIVE C7_OutputOf(_)
C7_OutputOf(k) ==
  IF k = 0 THEN <<>>
  ELSE LET c == k - 1
           fits == detector_[c].fits
       IN  IF fits = <<>> \/ 100 - (10 - fits[1].score) * (10 - fits[1].score) < confidence_cutoff
             THEN C7_OutputOf(c)
             ELSE Append(C7_OutputOf(c),
                         [pose_ |-> fits[1].pose,
                          confidence_ |-> 100 - (10 - fits[1].score) * (10 - fits[1].score),
                          object_id_ |-> fits[1].model_id,
                          cloud_ |-> OrigPoints(c),
                          cloud_index_ |-> c])

\* C7: whatever the order in which the tasks complete, every slot the join has
\* filled holds the list the Fitter answers for that cluster and its own index,
\* the task of the slot was run on that cluster and that index, and the output
\* of a call without merging is a function of the Fitter's answers.
C7_ResultsInClusterOrder ==
  /\ \A k \in DOMAIN clusters :
       ((pc = "join" /\ k < i) \/ (pc = "merge" /\ refits = <<>>))
         => /\ raw_fit_results[k] = detector_[k].fits
            /\ future_results[k].read = <<OrigPoints(k), OrigPoints(k)>>
  /\ (pc = "done" /\ ~perform_fit_merge) => Produced = C7_OutputOf(size(clusters))

\* The join loop has filled slot 0 and waits for the task of cluster 1, which
\* is still running after the task of cluster 2 has completed.
C7_Witness ==
  /\ pc = "join"
  /\ i = 1
  /\ size(clusters) >= 3
  /\ raw_fit_results[0] # <<>>
  /\ future_results[1].state = "running"
  /\ future_results[2].state = "ready"
  /\ future_results[2].ret.fits # <<>>
  /\ future_results[2].ret.fits # raw_fit_results[0]

----------------------------------------------------------------------------
(* C8 *)

\* C8: a call with no clusters builds no spatial index, launches no fit task,
\* makes no Fitter call in the merge stage, appends nothing to the results and
\* is not left by an exception, whatever perform_fit_merge is.
C8_EmptyInputNoWork ==
  size(clusters) = 0 =>
    /\ index_builds = 0
    /\ fit_calls = [dispatch |-> 0, merge |-> 0]
    /\ refits = <<>>
    /\ Produced = <<>>
    /\ results = results_before
    /\ ~Aborted

\* A call with no clusters and the merge stage switched on has returned.
C8_Witness ==
  /\ size(clusters) = 0
  /\ perform_fit_merge
  /\ pc = "done"
  /\ results = <<>>

----------------------------------------------------------------------------
(* C9 *)

\* Scenario A: two clusters that both fit model 5 with score 0.9, at positions
\* 0.01 apart, cutoff 0.5, merge stage on; the call has returned.
C9_ScenarioA ==
  /\ size(clusters) = 2
  /\ detector_[0] = [ok |-> TRUE, fits |-> <<ModelFitInfo(5, 9, 0, 0, 0)>>]
  /\ detector_[1] = [ok |-> TRUE, fits |-> <<ModelFitInfo(5, 9, 1, 0, 0)>>]
  /\ confidence_cutoff = 50
  /\ perform_fit_merge
  /\ pc = "done"

\* C9 as stated: in Scenario A the call returns exactly one result, with model
\* 5, confidence 0.99 and the points of A and B as cloud.
C9_ScenarioAOneResult ==
  C9_ScenarioA =>
    /\ Len(Produced) = 1
    /\ Produced[1].object_id_ = 5
    /\ Produced[1].confidence_ = 99
    /\ Produced[1].cloud_ = OrigPoints(0) \o OrigPoints(1)

\* C9 as amended: in Scenario A cluster B is merged into A and A is refit once
\* on the points of A followed by those of B; the call returns no result when
\* the refit gives no candidate or a top confidence below the cutoff, and
\* otherwise exactly one result, with the model, pose and confidence of the
\* refit's top candidate (model 5 and 0.99 when the refit again gives model 5
\* with score 0.9), the points of A followed by those of B as cloud, index 0.
C9_ScenarioAFollowsRefit ==
  C9_ScenarioA =>
    /\ Len(refits) = 1
    /\ refits[1].pts = OrigPoints(0) \o OrigPoints(1)
    /\ LET fits == refits[1].ret.fits
       IN  IF fits = <<>> \/ 100 - (10 - fits[1].score) * (10 - fits[1].score) < 50
             THEN Produced = <<>>
             ELSE Produced =
                    << [pose_ |-> fits[1].pose,
                        confidence_ |-> 100 - (10 - fits[1].score) * (10 - fits[1].score),
                        object_id_ |-> fits[1].model_id,
                        cloud_ |-> OrigPoints(0) \o OrigPoints(1),
                        cloud_index_ |-> 0] >>

\* Scenario A has returned one result with model 5 and confidence 0.99.
C9_Witness ==
  /\ C9_ScenarioA
  /\ Len(Produced) = 1
  /\ Produced[1].object_id_ = 5
  /\ Produced[1].confidence_ = 99

----------------------------------------------------------------------------
(* C10 *)

\* The points of input cluster k occur in the sequence of points pts.
C10_HoldsPointsOf(pts, k) == \E p \in 1..Len(pts) : pts[p] = OrigPoints(k)[1]

\* C10: a cluster whose fit result is empty is in no entry of the output,
\* whatever the cutoff is, and a step of the merge stage that merges cluster j
\* into cluster i is taken only when both have a fit, so that the points of a
\* cluster without a fit are never appended to another cluster.
C10_EmptyFitExcluded ==
  /\ [](pc = "done" =>
          \A k \in DOMAIN clusters :
            raw_fit_results[k] = <<>> => k \notin ProducedIndices)
  /\ [](\A k \in DOMAIN clusters :
          (detector_[k].fits = <<>> /\ pc \in {"merge", "assemble", "done"}) =>
            /\ cluster_model_indices[k] = k
            /\ clusters[k] = OrigPoints(k)
            /\ \A m \in DOMAIN clusters \ {k} : ~C10_HoldsPointsOf(clusters[m], k)
            /\ \A r \in 1..Len(Produced) :
                 /\ Produced[r].cloud_index_ # k
                 /\ ~C10_HoldsPointsOf(Produced[r].cloud_, k))
  /\ [][\A j \in DOMAIN clusters :
          (pc = "merge" /\ cluster_model_indices'[j] # cluster_model_indices[j]) =>
            /\ raw_fit_results[j] # <<>>
            /\ raw_fit_results[cluster_model_indices'[j]] # <<>>
            /\ clusters'[cluster_model_indices'[j]] =
                 clusters[cluster_model_indices'[j]] \o clusters[j]]_vars
  /\ [][\A k \in DOMAIN clusters :
          clusters'[k] # clusters[k] =>
            \E j \in DOMAIN clusters :
              /\ cluster_model_indices[j] = j
              /\ cluster_model_indices'[j] = k
              /\ j # k]_vars

\* A call with a cutoff of 0 has returned: cluster 1 has no fit and is
\* neither in the output nor merged, while cluster 2 was merged into cluster 0
\* across it.
C10_Witness ==
  /\ pc = "done"
  /\ confidence_cutoff <= 0
  /\ size(clusters) >= 3
  /\ detector_[1] = [ok |-> TRUE, fits |-> <<>>]
  /\ cluster_model_indices[1] = 1
  /\ cluster_model_indices[2] = 0
  /\ 0 \in ProducedIndices
  /\ 1 \notin ProducedIndices

----------------------------------------------------------------------------
(* C11 *)

\* The evaluation is of two scores 0 <= s1 < s2 <= 1.
C11_Raised == evaluation.done /\ evaluation.s1 < evaluation.s2

\* C11 as stated: confidence(0) = 0, confidence(1) = 1, and for scores
\* s1 < s2 in [0,1] confidence(s1) < confidence(s2).
C11_StrictlyIncreasing ==
  evaluation.done =>
    /\ evaluation.s1 = 0 => evaluation.c1 = 0
    /\ evaluation.s1 = DoubleOne => evaluation.c1 = DoubleOne
    /\ evaluation.s1 < evaluation.s2 => evaluation.c1 < evaluation.c2

\* C11 as amended: confidence(0) = 0, confidence(1) = 1, and for scores
\* s1 < s2 in [0,1] confidence(s1) <= confidence(s2); a score accepted at a
\* cutoff stays accepted when it is raised.  On the scores that are multiples
\* of 0.1, those of the detection model, the confidence is strictly increasing.
C11_NonDecreasing ==
  /\ evaluation.done =>
       /\ evaluation.s1 = 0 => evaluation.c1 = 0
       /\ evaluation.s1 = DoubleOne => evaluation.c1 = DoubleOne
       /\ evaluation.s1 < evaluation.s2 =>
            /\ evaluation.c1 <= evaluation.c2
            /\ ~(evaluation.c1 < evaluation.cutoff) => ~(evaluation.c2 < evaluation.cutoff)
  /\ getConfidence(0) = 0
  /\ getConfidence(10) = 100
  /\ \A a, b \in 0..10 : a < b => getConfidence(a) < getConfidence(b)

\* Two different scores below 1 have been given the same confidence, 1.
C11_Witness ==
  /\ C11_Raised
  /\ evaluation.s2 < DoubleOne
  /\ evaluation.c1 = DoubleOne
  /\ evaluation.c2 = DoubleOne
  /\ ~(evaluation.c1 < evaluation.cutoff)

----------------------------------------------------------------------------
(* C12 *)

\* The outer loop is at a cluster i that takes part in merging.
C12_AtOuter ==
  /\ pc = "merge"
  /\ perform_fit_merge
  /\ i < size(clusters)
  /\ cluster_model_indices[i] = i
  /\ raw_fit_results[i] # <<>>

\* The last step of the merge stage merged a cluster into the cluster i the
\* outer loop is still at.
C12_JustMerged ==
  /\ C12_AtOuter
  /\ refits # <<>>
  /\ refits[Len(refits)].cl = i

\* The clusters above index a that i can absorb now: not merged, with a fit
\* that is closer to the current fit of i than the threshold.
C12_Absorbable(a) ==
  { j \in DOMAIN clusters :
      /\ j > a
      /\ cluster_model_indices[j] = j
      /\ raw_fit_results[j] # <<>>
      /\ LET dx == raw_fit_results[i][1].pose.x - raw_fit_results[j][1].pose.x
             dy == raw_fit_results[i][1].pose.y - raw_fit_results[j][1].pose.y
         IN  dx * dx + dy * dy < 4 }

\* The least member of a non-empty set of indices.
C12_Least(S) == CHOOSE j \in S : \A m \in S : j <= m

\* C12 as stated: after cluster j was merged into cluster i and i was refit,
\* the next step examines the clusters from j + 1 on only: it merges the first
\* absorbable cluster above j into i, and advances i when there is none.
C12_ScanResumesAfterMerged ==
  [][C12_JustMerged =>
       LET S == C12_Absorbable(refits[Len(refits)].from)
       IN  IF S # {}
             THEN i' = i /\ cluster_model_indices'[C12_Least(S)] = i
             ELSE i' = i + 1 /\ cluster_model_indices' = cluster_model_indices]_vars

\* C12 as amended: at every outer cluster i that takes part in merging, also
\* right after a cluster j was merged into i and i was refit, the step examines
\* the clusters from i + 1 on: it merges the first absorbable cluster above i
\* into i and keeps i, and advances i when there is none.  The clusters in
\* i+1..j-1 that were passed over before the merge are examined again.
C12_ScanRestartsAfterOuter ==
  [][C12_AtOuter =>
       LET S == C12_Absorbable(i)
       IN  IF S # {}
             THEN /\ i' = i
                  /\ cluster_model_indices' =
                       [cluster_model_indices EXCEPT ![C12_Least(S)] = i]
             ELSE /\ i' = i + 1
                  /\ cluster_model_indices' = cluster_model_indices]_vars

\* Cluster 2 was merged into cluster 0 first, and cluster 1, passed over
\* before, was merged into cluster 0 after the refit.
C12_Witness ==
  /\ Len(refits) = 2
  /\ refits[1].cl = 0
  /\ refits[1].from = 2
  /\ refits[2].cl = 0
  /\ refits[2].from = 1

----------------------------------------------------------------------------
(* C13 *)

\* The merge stage has been entered (and possibly left).
MergeEntered == pc \in {"merge", "assemble", "done"} \/ refits # <<>>

\* The clusters that have been merged into another cluster, from the record of
\* the merges made.
MergedAway == { refits[r].from : r \in 1..Len(refits) }

\* C13: in every state from the start of the merge stage on, the representative
\* of a representative is itself (one hop), every cluster a merge went into is
\* its own representative, and a cluster is its own representative exactly if
\* it has not been merged into another cluster.
C13_OneHop ==
  MergeEntered =>
    /\ \A j \in DOMAIN clusters :
         /\ cluster_model_indices[j] \in DOMAIN clusters
         /\ cluster_model_indices[cluster_model_indices[j]] = cluster_model_indices[j]
         /\ (cluster_model_indices[j] = j) <=> (j \notin MergedAway)
    /\ \A r \in 1..Len(refits) :
         /\ cluster_model_indices[refits[r].cl] = refits[r].cl
         /\ cluster_model_indices[refits[r].from] = refits[r].cl

\* Clusters 1 and 2 have both been merged into cluster 0.
C13_Witness ==
  /\ pc = "merge"
  /\ size(clusters) >= 3
  /\ cluster_model_indices[1] = 0
  /\ cluster_model_indices[2] = 0
  /\ cluster_model_indices[0] = 0

----------------------------------------------------------------------------
(* C14 *)

\* Cluster j has been merged into another cluster.
C14_Merged(j) == cluster_model_indices[j] >= 0 /\ cluster_model_indices[j] # j

\* C14: once cluster j has been merged into cluster i, its representative, its
\* empty fit result and its points are never changed again, no later merge has
\* j as target or as source, and j is no entry of the output.
C14_MergedNeverRevisited ==
  /\ [][\A j \in DOMAIN clusters :
          C14_Merged(j) =>
            /\ cluster_model_indices'[j] = cluster_model_indices[j]
            /\ raw_fit_results[j] = <<>>
            /\ raw_fit_results'[j] = <<>>
            /\ clusters'[j] = clusters[j]]_vars
  /\ [](\A j \in DOMAIN clusters :
          C14_Merged(j) =>
            /\ j \notin ProducedIndices
            /\ Cardinality({ r \in 1..Len(refits) : refits[r].from = j }) = 1
            /\ \A r, q \in 1..Len(refits) :
                 (refits[r].from = j /\ r < q) => (refits[q].cl # j /\ refits[q].from # j)
            /\ \A r, q \in 1..Len(refits) :
                 (refits[r].from = j /\ q < r) => refits[q].cl # j)

\* The call has returned after cluster 1 was merged into cluster 0 and, later,
\* cluster 2 into cluster 0: cluster 1 stayed as it was.
C14_Witness ==
  /\ pc = "done"
  /\ Len(refits) >= 2
  /\ refits[1].from = 1
  /\ cluster_model_indices[1] = 0
  /\ raw_fit_results[1] = <<>>
  /\ ProducedIndices # {}

----------------------------------------------------------------------------
(* C15 *)

\* The number of clusters that have not been merged into another one.
C15_Unabsorbed == Cardinality({ j \in DOMAIN clusters : cluster_model_indices[j] = j })

\* Some refit has raised instead of returning a list of fits.
C15_RefitRaised == \E r \in 1..Len(refits) : ~refits[r].ret.ok

\* C15: every step of the merge stage either advances the outer index by one or
\* merges one more cluster away and keeps the outer index, the outer index
\* stays within 0..N, and, every Fitter call ending, a call that has reached
\* the merge stage returns unless a refit raised.
C15_MergeStageTerminates ==
  /\ [][(pc = "merge" /\ pc' = "merge") =>
          \/ /\ i' = i + 1
             /\ cluster_model_indices' = cluster_model_indices
          \/ /\ i' = i
             /\ C15_Unabsorbed' = C15_Unabsorbed - 1
             /\ Len(refits') = Len(refits) + 1]_vars
  /\ [](pc = "merge" => i \in 0..size(clusters))
  /\ (pc = "merge") ~> (pc = "done" \/ C15_RefitRaised)

\* The call has returned after two merges into cluster 0, the second refit
\* having moved the pose of cluster 0 away from that of the first.
C15_Witness ==
  /\ pc = "done"
  /\ perform_fit_merge
  /\ Len(refits) = 2
  /\ refits[1].ret.ok
  /\ refits[2].ret.ok
  /\ refits[1].ret.fits # <<>>
  /\ refits[2].ret.fits # <<>>
  /\ refits[1].ret.fits[1].pose # refits[2].ret.fits[1].pose

----------------------------------------------------------------------------
(* C16 *)

\* The merges made so far: the clusters whose representative is another cluster.
C16_Merges == Cardinality({ j \in DOMAIN clusters :
                              cluster_model_indices[j] >= 0 /\ cluster_model_indices[j] # j })

\* C16: the Fitter calls of the merge stage are as many as the merges made (one
\* per merge, none in a step that merges nothing and none when merging is
\* off), the merges of N clusters are at most N-1 (none for N = 0), one Fitter
\* call per cluster is made at dispatch, and when the call returns the Fitter
\* has been called N plus the number of merges times.
C16_OneFitterCallPerMerge ==
  /\ fit_calls.merge = Len(refits)
  /\ fit_calls.merge = C16_Merges
  /\ size(clusters) = 0 => fit_calls.merge = 0
  /\ size(clusters) > 0 => fit_calls.merge <= size(clusters) - 1
  /\ ~perform_fit_merge => fit_calls.merge = 0
  /\ fit_calls.dispatch <= size(clusters)
  /\ pc \in {"join", "merge", "assemble", "done"} => fit_calls.dispatch = size(clusters)
  /\ pc = "done" =>
       fit_calls.dispatch + fit_calls.merge = size(clusters) + C16_Merges

\* The call has returned after three dispatch fits, one merge and steps of the
\* merge stage that advanced without a merge.
C16_Witness ==
  /\ pc = "done"
  /\ size(clusters) = 3
  /\ perform_fit_merge
  /\ C16_Merges = 1
  /\ fit_calls = [dispatch |-> 3, merge |-> 1]
  /\ Cardinality(ProducedIndices) = 2

----------------------------------------------------------------------------
(* C17 *)

\* The spatial index built over the original points of cluster k.
C17_OriginalIndex(k) == [built |-> TRUE, alive |-> TRUE, over |-> OrigPoints(k)]

\* The points of a point sequence.
C17_PointsOf(pts) == { pts[n] : n \in DOMAIN pts }

\* C17: one spatial index is built per dispatched cluster and none after the
\* dispatch, each over the original points of its cluster; a step that stays in
\* the merge stage or ends it leaves the indices as they are; and every refit
\* of a cluster i was called with the enlarged points of i, which begin with
\* the original ones and hold those of the merged cluster, and with the index
\* over the original points of i, which covers none of the appended points.
C17_IndexBuiltOnceAndStale ==
  /\ [](/\ pc = "dispatch" => index_builds = i
        /\ pc # "dispatch" => index_builds = size(clusters)
        /\ \A k \in DOMAIN search :
             (search[k].alive /\ (pc # "dispatch" \/ k < i)) =>
                search[k] = C17_OriginalIndex(k)
        /\ \A r \in 1..Len(refits) :
             LET f == refits[r]
                 added == SubSeq(f.pts, Len(OrigPoints(f.cl)) + 1, Len(f.pts))
             IN  /\ f.idx = C17_OriginalIndex(f.cl)
                 /\ Len(f.pts) > Len(f.idx.over)
                 /\ SubSeq(f.pts, 1, Len(f.idx.over)) = f.idx.over
                 /\ C17_PointsOf(OrigPoints(f.from)) \subseteq C17_PointsOf(added)
                 /\ C17_PointsOf(added) \cap C17_PointsOf(f.idx.over) = {})
  /\ [][(pc = "merge" /\ pc' \in {"merge", "assemble"}) =>
          (search' = search /\ index_builds' = index_builds)]_vars

\* Cluster 0 has been refit after cluster 1 was merged into it: three points,
\* and the index over the first two.
C17_Witness ==
  /\ pc = "merge"
  /\ Len(refits) = 1
  /\ refits[1].cl = 0
  /\ refits[1].from = 1
  /\ Len(refits[1].pts) = 3
  /\ Len(refits[1].idx.over) = 2
  /\ search[0] = refits[1].idx
  /\ clusters[0] = refits[1].pts

----------------------------------------------------------------------------
(* C18 *)

\* The input clusters whose points are in the cloud of an entry.
C18_ClustersIn(entry) ==
  { k \in DOMAIN clusters :
      \A n \in DOMAIN OrigPoints(k) :
        \E q \in DOMAIN entry.cloud_ : entry.cloud_[q] = OrigPoints(k)[n] }

\* C18: the representative of a cluster j is never above j; a cluster is merged
\* only into a cluster below it, which is the one at the outer index; and the
\* cloud_index_ of an entry the call appended is the least index of the input
\* clusters whose points are in its cloud.
C18_MergesGoDown ==
  /\ [](/\ \A j \in DOMAIN cluster_model_indices : cluster_model_indices[j] <= j
        /\ \A r \in 1..Len(refits) : refits[r].cl < refits[r].from
        /\ \A e \in 1..Len(Produced) :
             /\ Produced[e].cloud_index_ \in C18_ClustersIn(Produced[e])
             /\ \A k \in C18_ClustersIn(Produced[e]) : Produced[e].cloud_index_ <= k)
  /\ [][\A j \in DOMAIN cluster_model_indices :
          (pc = "merge" /\ cluster_model_indices'[j] # cluster_model_indices[j]) =>
             (i < j /\ i' = i /\ cluster_model_indices'[j] = i)]_vars

\* The call has appended an entry for cluster 1 whose cloud holds the points
\* of clusters 1 and 2, and none for cluster 2.
C18_Witness ==
  /\ pc = "done"
  /\ size(clusters) = 3
  /\ cluster_model_indices = [k \in 0..2 |-> IF k = 2 THEN 1 ELSE k]
  /\ \E e \in 1..Len(Produced) :
       /\ Produced[e].cloud_index_ = 1
       /\ C18_ClustersIn(Produced[e]) = {1, 2}

----------------------------------------------------------------------------
(* C19 *)

\* The original points of the clusters merged into cluster k by the first n
\* merges, in the order of the merges.
RECURSIVE C19_Appended(_, _)
C19_Appended(k, n) ==
  IF n = 0 THEN <<>>
  ELSE IF refits[n].cl = k
         THEN C19_Appended(k, n - 1) \o OrigPoints(refits[n].from)
         ELSE C19_Appended(k, n - 1)

\* The merges made into cluster k.
C19_MergesInto(k) == { r \in 1..Len(refits) : refits[r].cl = k }

\* C19: in every state the points of a cluster k are its original points
\* followed, in merge order, by the original points of the clusters merged into
\* it, which are exactly the other clusters whose representative is k, each
\* merged once; a merge step changes the points of the cluster at the outer
\* index only, by appending, and the cluster it merges away has its original
\* points and the fit its dispatch task returned.
C19_AppendOnly ==
  /\ [](\A k \in DOMAIN clusters :
          /\ clusters[k] = OrigPoints(k) \o C19_Appended(k, Len(refits))
          /\ { refits[r].from : r \in C19_MergesInto(k) } =
               { j \in DOMAIN clusters : j # k /\ cluster_model_indices[j] = k }
          /\ Cardinality(C19_MergesInto(k)) =
               Cardinality({ j \in DOMAIN clusters : j # k /\ cluster_model_indices[j] = k })
          /\ (cluster_model_indices[k] >= 0 /\ cluster_model_indices[k] # k) =>
               clusters[k] = OrigPoints(k))
  /\ [][\A k \in DOMAIN clusters :
          /\ Len(clusters'[k]) >= Len(clusters[k])
          /\ SubSeq(clusters'[k], 1, Len(clusters[k])) = clusters[k]
          /\ (clusters'[k] # clusters[k] \/ Len(refits') # Len(refits)) =>
               /\ pc = "merge"
               /\ Len(refits') = Len(refits) + 1
               /\ LET f == refits'[Len(refits')]
                  IN  /\ f.cl = i
                      /\ clusters[f.from] = OrigPoints(f.from)
                      /\ detector_[f.from].ok
                      /\ raw_fit_results[f.from] = detector_[f.from].fits
                      /\ clusters'[f.cl] = clusters[f.cl] \o OrigPoints(f.from)
                      /\ \A q \in DOMAIN clusters : q # f.cl => clusters'[q] = clusters[q]]_vars

\* Clusters 2 and 1 have been merged into cluster 0 in this order: the points
\* of cluster 0 are its own, then those of cluster 2, then those of cluster 1.
C19_Witness ==
  /\ pc = "merge"
  /\ Len(refits) = 2
  /\ refits[1].cl = 0 /\ refits[1].from = 2
  /\ refits[2].cl = 0 /\ refits[2].from = 1
  /\ clusters[0] = OrigPoints(0) \o OrigPoints(2) \o OrigPoints(1)

----------------------------------------------------------------------------
(* C20 *)

\* The square of the merge threshold, to compare with fitDistance.
C20_Threshold == fit_merge_threshold_ * fit_merge_threshold_

\* Cluster j is its own representative and has a fit.
C20_Live(j) == cluster_model_indices[j] = j /\ raw_fit_results[j] # <<>>

\* C20: when a step of the merge stage advances the outer index past a cluster
\* i that is its own representative and has a fit, every cluster j > i that is
\* its own representative and has a fit is at a planar distance of at least the
\* threshold from the current best fit of i; and a step that merges a cluster
\* into cluster i finds the two best fits at a distance strictly below the
\* threshold, never at the threshold.
C20_AdvanceLeavesNoneClose ==
  /\ [][(pc = "merge" /\ pc' = "merge" /\ i' = i + 1 /\ C20_Live(i)) =>
          \A j \in DOMAIN clusters :
            (j > i /\ C20_Live(j)) =>
               fitDistance(raw_fit_results[i][1], raw_fit_results[j][1]) >= C20_Threshold]_vars
  /\ [][(Len(refits') # Len(refits)) =>
          LET f == refits'[Len(refits')]
          IN  /\ C20_Live(f.cl)
              /\ C20_Live(f.from)
              /\ fitDistance(raw_fit_results[f.cl][1], raw_fit_results[f.from][1])
                   < C20_Threshold]_vars

\* The outer index has advanced past cluster 0, which was refit after cluster 2
\* was merged into it, while cluster 1 is its own representative with a fit
\* exactly at the threshold from the fit the refit returned.
C20_Witness ==
  /\ pc = "merge"
  /\ i = 1
  /\ size(clusters) = 3
  /\ Len(refits) = 1
  /\ refits[1].cl = 0
  /\ refits[1].from = 2
  /\ C20_Live(0)
  /\ C20_Live(1)
  /\ raw_fit_results[0] = refits[1].ret.fits
  /\ raw_fit_results[0] # detector_[0].fits
  /\ fitDistance(raw_fit_results[0][1], raw_fit_results[1][1]) = C20_Threshold

====
